---- MODULE Spec2Model ----
(***************************************************************************)
(* State-machine model of the explanation / separability code of cg-gnns:  *)
(*   - Metric (histocartography/interpretability/metric_analysis/metric.py)*)
(*   - explain_cell_graphs (hactnet/explain/explain.py)                    *)
(*   - the visualization script (d2_make_interactives.py)                  *)
(*   - run (cggnn/run.py)                                                  *)
(*                                                                         *)
(* Conventions.  Python lists and numpy arrays are sequences, so code      *)
(* index k is model position k+1.  A pooled matrix is the sequence of its  *)
(* rows and a row is the sequence of its column values.  Attribute values  *)
(* live on an integer grid.  Distances are integers in units of 1e-5       *)
(* before numpy's round(.., 4) and in units of 1e-4 after it.  Histogram   *)
(* densities are exact fractions <<numerator, denominator>>.               *)
(***************************************************************************)
EXTENDS Integers, Sequences, FiniteSets, TLC

VARIABLES
    \* ---- a Metric object and the result of the last call on it
    tumor_labels,     \* config.tumor_labels: one class label per graph
    node_concept,     \* explanation.node_concept: per graph, its list of rows
    args_risk,        \* args.risk, the string handed to eval()
    args_distance,    \* args.distance
    n_tumors,         \* self.n_tumors
    concept,          \* self.concept
    nuclei_labels,    \* self.nuclei_labels
    init_error,       \* exception raised by Metric.__init__, or "none"
    dist,             \* self.dist: what its distance() returns for each pair
    ret,              \* record describing the last method call and its result
    \* ---- a direct call of one of the two histogram functions
    hist_input,       \* the `input` argument: one matrix per class
    hist_step,        \* the `step` argument (bin width)
    hist_ret,         \* record describing the call and its result
    \* ---- one execution of explain_cell_graphs
    pc,               \* position inside explain_cell_graphs
    feature_names,    \* "None" or "given"
    cell_graph_names, \* "None" or "given"
    out_directory,    \* "None" or "given"
    n_graphs,         \* len(cell_graphs_and_labels[0])
    calls,            \* the calls made so far, in order
    raised,           \* exception that left explain_cell_graphs, or "none"
    \* ---- one execution of the script d2_make_interactives.py
    cell_graphs_data, \* what load_cell_graphs returned, in load order
    merge_rois,       \* args.merge_rois
    graph_groups,     \* the dictionary graph_groups: key -> list of graphs
    group_pc,         \* position inside the script
    handed_groups,    \* first argument of the generate_interactives call
    \* ---- one execution of run
    graphs,                \* what generate_graphs returned
    train_validation_test, \* the three (graphs, labels) sets
    run_pc,                \* position inside run
    next_graph,            \* position of the partition loop in graphs
    eval_i,                \* the local i of the selection loop
    evaluation_set,        \* the local evaluation_set
    explain_call,          \* arguments of the explain_cell_graphs call
    run_raised             \* exception that left run, or "none"

metricVars  == <<tumor_labels, node_concept, args_risk, args_distance,
                 n_tumors, concept, nuclei_labels, init_error, dist, ret>>
histVars    == <<hist_input, hist_step, hist_ret>>
explainVars == <<pc, feature_names, cell_graph_names, out_directory,
                 n_graphs, calls, raised>>
groupVars   == <<cell_graphs_data, merge_rois, graph_groups, group_pc,
                 handed_groups>>
runVars     == <<graphs, train_validation_test, run_pc, next_graph, eval_i,
                 evaluation_set, explain_call, run_raised>>
scriptVars  == <<groupVars, runVars>>
vars        == <<metricVars, histVars, explainVars, scriptVars>>

---------------------------------------------------------------------------
(* Bounds of the model *)

\* most graphs handed to one Metric object / one explain_cell_graphs call
MaxGraphs == 3
\* attribute values of the direct histogram calls are drawn from 0..MaxVal
MaxVal == 2

\* class labels of the graphs
ClassLabels == {0, 1, 2}
\* rows (nodes) a graph may contribute
RowCounts == {1, 2}
\* values a distance function may return for one pair, in units of 1e-5
RawDistances == {5, 15, 26}
\* values of args.distance: histogram mode and one other mode
DistanceModes == {"hist", "pair"}
\* values of args.risk, evaluated by eval()
RiskFlags == {"True", "False"}

---------------------------------------------------------------------------
(* Generic helpers *)

Range(s) == {s[k] : k \in DOMAIN s}

RECURSIVE SumSeq(_)
SumSeq(s) == IF s = <<>> THEN 0 ELSE Head(s) + SumSeq(Tail(s))

RECURSIVE Concat(_)
\* concatenation of a sequence of sequences
Concat(ss) == IF ss = <<>> THEN <<>> ELSE Head(ss) \o Concat(Tail(ss))

Abs(x) == IF x < 0 THEN -x ELSE x

\* a list or numpy array built by the code holds its elements from then on:
\* the comparison makes the elements of f be computed once, here
Array(f) == IF f = f THEN f ELSE f

\* numpy's round-half-to-even of x/q, for x >= 0 and q > 0
RoundHalfEven(x, q) ==
    LET f == x \div q
        r == x % q
    IN  IF 2 * r < q THEN f
        ELSE IF 2 * r > q THEN f + 1
        ELSE IF f % 2 = 0 THEN f ELSE f + 1

---------------------------------------------------------------------------
(* Metric.__init__ and merge_concepts_per_tumor_type *)

\* a local variable: `bound` tells whether it has been assigned, `rows` is
\* its value; Unbound is the variable before its first assignment
Unbound == [bound |-> FALSE, rows |-> <<>>]

\* len(np.unique(config.tumor_labels))
NumTumors(labels) == Cardinality(Range(labels))

\* np.where(labels == i)[0]: the positions holding label i, ascending
Where(labels, i) ==
    LET F[k \in 0..Len(labels)] ==
            IF k = 0 THEN <<>>
            ELSE IF labels[k] = i THEN Append(F[k - 1], k) ELSE F[k - 1]
    IN  F[Len(labels)]

\* lines 35-38: output_ += input[idx[j]] for every j
Gather(input, idx) == Concat([j \in DOMAIN idx |-> input[idx[j]]])

\* lines 40-44: output__ after the vstack loop; the loop body does not run
\* for an empty output_, which leaves output__ as it was before
VStackInto(output_, output__) ==
    IF output_ = <<>> THEN output__ ELSE [bound |-> TRUE, rows |-> output_]

RECURSIVE MergeLoop(_, _, _, _, _, _)
\* lines 33-45: iterations i..n-1 of the loop over range(self.n_tumors);
\* output__ is a function-scope local and survives from one iteration to
\* the next; reading it while unassigned raises UnboundLocalError
MergeLoop(input, labels, n, i, output, output__) ==
    IF i >= n THEN [err |-> "none", output |-> output]
    ELSE LET idx   == Where(labels, i)
             stack == VStackInto(Gather(input, idx), output__)
         IN  IF ~stack.bound
             THEN [err |-> "UnboundLocalError", output |-> output]
             ELSE MergeLoop(input, labels, n, i + 1,
                            Append(output, stack.rows), stack)

\* merge_concepts_per_tumor_type(self, input)
MergeConceptsPerTumorType(input, labels, n) ==
    MergeLoop(input, labels, n, 0, <<>>, Unbound)

---------------------------------------------------------------------------
(* get_risk *)

\* eval(self.args.risk)
EvalRisk(flag) == flag = "True"

\* value written at risk[i, j] by lines 155-157 (ordinal mode)
OrdinalEntryNoAbs(i, j) == i - j
OrdinalEntry(i, j) == Abs(i - j)

\* line 153: np.ones
OnesZeroDiagonal(n) == [i \in 1..n |-> [j \in 1..n |-> IF i = j THEN 0 ELSE 1]]
Ones(n) == [i \in 1..n |-> [j \in 1..n |-> 1]]

\* get_risk(self)
GetRisk(n, flag) ==
    IF EvalRisk(flag)
    THEN [i \in 1..n |-> [j \in 1..n |-> OrdinalEntry(i, j)]]
    ELSE Ones(n)

---------------------------------------------------------------------------
(* get_distance *)

\* the ordered pairs for which line 146 calls the distance function
CalledPairs(len) == {p \in (1..len) \X (1..len) : p[1] < p[2]}

\* what the distance function may return for the pairs it is called on:
\* any non-negative value for each pair
DistanceOutcomes(len) == [CalledPairs(len) -> RawDistances]

\* value held at M[i, j] when the loops of lines 143-148 are over:
\* the score of the pair is written at both [i, j] and [j, i]
DistanceEntryUpperOnly(d, i, j) == IF i < j THEN d[<<i, j>>] ELSE 0
DistanceEntry(d, i, j) ==
    IF i < j THEN d[<<i, j>>]
    ELSE IF j < i THEN d[<<j, i>>]
    ELSE 0

\* line 149: np.round(M, 4), from units of 1e-5 to units of 1e-4
Round4(x) == RoundHalfEven(x, 10)

\* get_distance(self, input), d being what the distance function returns;
\* M has n_tumors rows, so a longer input indexes outside it
GetDistance(input, n, d) ==
    IF Len(input) > n /\ Len(input) >= 2
    THEN [err |-> "IndexError", M |-> <<>>]
    ELSE [err |-> "none",
          M   |-> [i \in 1..n |-> [j \in 1..n |->
                     IF i <= Len(input) /\ j <= Len(input)
                     THEN Round4(DistanceEntry(d, i, j)) ELSE 0]]]

---------------------------------------------------------------------------
(* Exact fractions <<numerator, denominator>> for histogram densities *)

RECURSIVE GCD(_, _)
GCD(a, b) == IF b = 0 THEN a ELSE GCD(b, a % b)

\* numpy's 0/0
NaN == <<0, 0>>

\* n/d in lowest terms, for d >= 0
Frac(n, d) ==
    IF d = 0 THEN NaN
    ELSE LET g == GCD(Abs(n), d) IN <<n \div g, d \div g>>

FracLess(a, b) == a[1] * b[2] < b[1] * a[2]
FracSub(a, b)  == Frac(a[1] * b[2] - b[1] * a[2], a[2] * b[2])
FracDiv(a, b)  == Frac(a[1] * b[2], a[2] * b[1])

\* np.min / np.max over a non-empty set of fractions
FracMin(S) == CHOOSE m \in S : \A v \in S : ~FracLess(v, m)
FracMax(S) == CHOOSE m \in S : \A v \in S : ~FracLess(m, v)

---------------------------------------------------------------------------
(* histogram_analysis and histogram_analysis_per_concept *)

\* np.min(x, axis=0)[d] and np.max(x, axis=0)[d]
ColMin(x, d) == CHOOSE m \in {x[r][d] : r \in DOMAIN x} :
                    \A r \in DOMAIN x : m <= x[r][d]
ColMax(x, d) == CHOOSE m \in {x[r][d] : r \in DOMAIN x} :
                    \A r \in DOMAIN x : m >= x[r][d]

\* math.ceil(a / b) for a >= 0, b > 0
Ceil(a, b) == (a + b - 1) \div b

\* lines 110-115: the edges minm + j*step for j = 0..ctr
EdgesFloor(minm, maxm, step) ==
    [k \in 1..(((maxm - minm) \div step) + 1) |-> minm + (k - 1) * step]
Edges(minm, maxm, step) ==
    Array([k \in 1..(Ceil(maxm - minm, step) + 1) |-> minm + (k - 1) * step])

\* lines 108-116 (and 69-77): one edge sequence per dimension of x
BinsOf(x, step) ==
    Array([d \in 1..Len(x[1]) |-> Edges(ColMin(x, d), ColMax(x, d), step)])

\* np.searchsorted(edges, v, side='right'), with histogramdd's correction
\* that puts a value equal to the last edge into the last bin; 0 is the
\* outlier bin below the first edge, Len(edges) the one above the last
BinOf(edges, v) ==
    LET k == Cardinality({e \in DOMAIN edges : edges[e] <= v})
    IN  IF v = edges[Len(edges)] THEN k - 1 ELSE k

\* the cells of the histogram: per dimension, the bins between two edges
Cells(bins) ==
    LET D  == Len(bins)
        mx == IF D = 0 THEN 0
              ELSE CHOOSE m \in {Len(bins[d]) : d \in 1..D} :
                       \A d \in 1..D : Len(bins[d]) <= m
    IN  {b \in [1..D -> 1..mx] : \A d \in 1..D : b[d] <= Len(bins[d]) - 1}

RECURSIVE Product(_)
Product(s) == IF s = <<>> THEN 1 ELSE Head(s) * Product(Tail(s))

\* np.histogramdd(sample, bins=bins, density=True)[0]: per cell, the number
\* of rows in it over (rows inside the edges * volume of the cell)
HistogramDD(sample, bins) ==
    LET D      == Len(bins)
        cells  == Cells(bins)
        cellOf == Array([r \in DOMAIN sample |->
                     [d \in 1..D |-> BinOf(bins[d], sample[r][d])]])
        cnt(b) == Cardinality({r \in DOMAIN sample : cellOf[r] = b})
        s      == Cardinality({r \in DOMAIN sample : cellOf[r] \in cells})
        vol(b) == Product([d \in 1..D |-> bins[d][b[d] + 1] - bins[d][b[d]]])
    IN  [b \in cells |-> IF s = 0 THEN NaN ELSE Frac(cnt(b), s * vol(b))]

\* every value of every array of count
AllValues(count) ==
    UNION {{count[c][b] : b \in DOMAIN count[c]} : c \in DOMAIN count}

\* lines 124-134 (and 83-93): min-max normalisation of all arrays of count
\* with the minimum and maximum taken over all of them; np.min and np.max
\* of an array of NaN are NaN, which compares False with everything, so
\* such an array leaves minm and maxm as they are
NormalizeForgotten(count) == count
Normalize(count) ==
    LET vals == AllValues(count) \ {NaN}
        minm == FracMin(vals)
        maxm == FracMax(vals)
        span == FracSub(maxm, minm)
    IN  IF minm # maxm
        THEN Array([c \in DOMAIN count |-> [b \in DOMAIN count[c] |->
                 FracDiv(FracSub(count[c][b], minm), span)]])
        ELSE count

\* np.min(count[i]) of an array without cells raises ValueError
HasEmptyArray(count) == \E c \in DOMAIN count : DOMAIN count[c] = {}

\* lines 99-104: x, the vstack of all arrays of input
VStackFirstOnly(input) == input[1]
VStackClasses(input) == Concat(input)

\* lines 98-122 of histogram_analysis(self, input, step): bins and raw are
\* the locals `bins` and `count` before normalisation
HistogramsOf(input, step) ==
    LET x    == VStackClasses(input)
        bins == BinsOf(x, step)
        raw  == [c \in DOMAIN input |-> HistogramDD(input[c], bins)]
    IN  IF x = <<>>
        THEN \* line 105: np.min of an array without rows
             [err |-> "ValueError", bins |-> <<>>, raw |-> <<>>]
        ELSE IF HasEmptyArray(raw)
        THEN \* line 127: np.min of an array without cells
             [err |-> "ValueError", bins |-> bins, raw |-> raw]
        ELSE [err |-> "none", bins |-> bins, raw |-> raw]

\* histogram_analysis(self, input, step)
HistogramAnalysis(input, step) ==
    LET h == HistogramsOf(input, step)
    IN  IF h.err # "none"
        THEN [err |-> h.err, bins |-> h.bins, raw |-> h.raw, count |-> <<>>]
        ELSE LET raw == Array(h.raw)
             IN  [err |-> "none", bins |-> h.bins, raw |-> raw,
                  count |-> Normalize(raw)]

RECURSIVE PerConceptLoop(_, _, _, _, _, _)
\* lines 64-93: iterations k.. of the loop over input; every iteration
\* computes the edges of its own x, appends its histogram to count and then
\* normalises everything that is in count
PerConceptLoop(input, step, k, bins, raw, count) ==
    IF k > Len(input)
    THEN [err |-> "none", bins |-> bins, raw |-> raw, count |-> count]
    ELSE LET x     == input[k]
             bins_ == BinsOf(x, step)
             H     == HistogramDD(x, bins_)
             cnt   == Append(count, H)
         IN  IF x = <<>>
             THEN \* line 67: np.min of an array without rows
                  [err |-> "ValueError", bins |-> bins, raw |-> raw,
                   count |-> <<>>]
             ELSE IF HasEmptyArray(cnt)
             THEN [err |-> "ValueError", bins |-> Append(bins, bins_),
                   raw |-> Append(raw, H), count |-> <<>>]
             ELSE PerConceptLoop(input, step, k + 1, Append(bins, bins_),
                                 Append(raw, H), Normalize(cnt))

\* histogram_analysis_per_concept(self, input, step); bins[k] and raw[k]
\* are the locals `bins` and `H` of iteration k
HistogramAnalysisPerConcept(input, step) ==
    PerConceptLoop(input, step, 1, <<>>, <<>>, <<>>)

---------------------------------------------------------------------------
(* compute_concept_score *)

\* line 163: step=0.01, the grid unit of concept values being 0.005
ConceptStep == 2

\* line 167: np.sum(np.multiply(distance, risk)), in units of 1e-4
SumOfProducts(distance, risk) ==
    SumSeq([i \in DOMAIN distance |->
              SumSeq([j \in DOMAIN distance[i] |-> distance[i][j] * risk[i][j]])])

\* lines 167 and 172: the sum halved, then round(score, 4); x is in units
\* of 1e-4, so x/2 is rounded to a whole number of them
NotHalved(x) == x
HalvedAndRounded(x) == RoundHalfEven(x, 2)

\* lines 162-163 when self.concept already holds histogram arrays (a second
\* call in histogram mode).  The arrays are 1-D, as long as there are bins.
\* Stacked, they form a matrix with one column per bin, so `bins` gets one
\* edge list per bin, while histogramdd reads each array as samples of one
\* column: with two bins or more it raises ValueError (dimension of bins),
\* and with one bin all values are equal, every edge list has one edge, the
\* histogram has no cell and np.min raises ValueError.
HistogramAnalysisOfArrays(arrays, step) ==
    [err |-> "ValueError", bins |-> <<>>, raw |-> <<>>, count |-> <<>>]

\* the rows of graph g in the inputs the model draws: row r of graph g has
\* one column holding a value no other row has
ConceptRow(g, r) == <<4 * (g - 1) + r>>

\* the nuclei type labels of the item that holds concept row `row`, in the
\* inputs the model draws: one nucleus, of type 0 or 1
NodeLabel(row) == <<row[1] % 2>>

\* merge_labels_per_tumor_type(self, input): per class, the items of its
\* graphs (no local survives an iteration here)
MergeLabelsPerTumorType(input, labels, n) ==
    [i \in 1..n |-> Gather(input, Where(labels, i - 1))]

\* `read` is the representation handed to get_distance by a scoring call
NoReturn == [op |-> "none", err |-> "none", risk |-> <<>>, distance |-> <<>>,
             score |-> 0, read |-> "none", precision_epi |-> 0]

\* Metric.__init__ (lines 14-28) on the given config and explanation
MetricConstructed ==
    \E len \in 1..MaxGraphs :
      \E labels \in [1..len -> ClassLabels], counts \in [1..len -> RowCounts],
         flag \in RiskFlags, mode \in DistanceModes :
       \E d \in DistanceOutcomes(NumTumors(labels)) :
        LET input == [g \in 1..len |-> [r \in 1..counts[g] |-> ConceptRow(g, r)]]
            n     == NumTumors(labels)
            m     == MergeConceptsPerTumorType(input, labels, n)
            node_label == [g \in 1..len |->
                             [r \in 1..counts[g] |-> NodeLabel(input[g][r])]]
        IN  /\ tumor_labels = labels
            /\ node_concept = input
            /\ args_risk = flag
            /\ args_distance = mode
            /\ n_tumors = n
            /\ concept = [repr |-> "rows", data |-> m.output]
            /\ nuclei_labels = IF m.err = "none"
                               THEN MergeLabelsPerTumorType(node_label, labels, n)
                               ELSE <<>>
            /\ init_error = m.err
            /\ dist = d
            /\ ret = NoReturn

\* no Metric object
MetricIdle ==
    /\ tumor_labels = <<>>
    /\ node_concept = <<>>
    /\ args_risk = "False"
    /\ args_distance = "pair"
    /\ n_tumors = 0
    /\ concept = [repr |-> "rows", data |-> <<>>]
    /\ nuclei_labels = <<>>
    /\ init_error = "idle"
    /\ dist = <<>>
    /\ ret = NoReturn

\* a call of get_risk() on the object
CallGetRisk ==
    /\ init_error = "none"
    /\ ret' = [NoReturn EXCEPT !.op = "get_risk",
                               !.risk = GetRisk(n_tumors, args_risk)]
    /\ UNCHANGED <<tumor_labels, node_concept, args_risk, args_distance,
                   n_tumors, concept, nuclei_labels, init_error, dist, histVars, explainVars,
                   scriptVars>>

\* a call of get_distance(self.concept) on the object
CallGetDistance ==
    /\ init_error = "none"
    /\ \E r \in {GetDistance(concept.data, n_tumors, dist)} :
           ret' = [NoReturn EXCEPT !.op = "get_distance", !.err = r.err,
                                 !.distance = r.M]
    /\ UNCHANGED <<tumor_labels, node_concept, args_risk, args_distance,
                   n_tumors, concept, nuclei_labels, init_error, dist, histVars, explainVars,
                   scriptVars>>

\* a call of compute_concept_score() on the object (lines 161-172);
\* h is what lines 162-163 leave as the representations of the classes
CallComputeConceptScore ==
    /\ init_error = "none"
    /\ \E h \in {IF args_distance # "hist"
                 THEN [err |-> "none", count |-> concept.data]
                 ELSE IF concept.repr = "rows"
                 THEN HistogramAnalysis(concept.data, ConceptStep)
                 ELSE HistogramAnalysisOfArrays(concept.data, ConceptStep)} :
         IF h.err # "none"
         THEN /\ ret' = [NoReturn EXCEPT !.op = "compute_concept_score",
                                         !.err = h.err]
              /\ UNCHANGED concept
         ELSE /\ concept' = IF args_distance = "hist"
                            THEN [repr |-> "hist", data |-> h.count]
                            ELSE concept
              /\ \E r \in {GetDistance(h.count, n_tumors, dist)},
                    risk \in {GetRisk(n_tumors, args_risk)} :
                   ret' = [op |-> "compute_concept_score",
                           read |-> IF args_distance = "hist"
                                    THEN "hist" ELSE "rows",
                           precision_epi |-> 0,
                           err |-> r.err,
                           risk |-> risk,
                           distance |-> r.M,
                           score |-> IF r.err = "none"
                                     THEN HalvedAndRounded(
                                              SumOfProducts(r.M, risk))
                                     ELSE 0]
    /\ UNCHANGED <<tumor_labels, node_concept, args_risk, args_distance,
                   n_tumors, nuclei_labels, init_error, dist, histVars,
                   explainVars, scriptVars>>

\* ids of the nuclei types counted: range(len(config.nuclei_types[1:]))
NucleiTypeIds == {0, 1}

\* step=0.05 (lines 199 and 203): nuclei fractions are counted in units of
\* 0.05, of which 1.0 holds 20, and the bin width is one unit
UnitsPerOne == 20
NucleiStep == 1

\* lines 180-182 and 192: the fraction of each nuclei type among the labels
\* of one item, a row of the nuclei statistics
NucleiRow(item) ==
    Array([k \in 1..Cardinality(NucleiTypeIds) |->
        (UnitsPerOne * Cardinality({q \in DOMAIN item : item[q] = k - 1}))
            \div Cardinality({q \in DOMAIN item : item[q] \in NucleiTypeIds})])

RECURSIVE NucleiLoop(_, _, _, _)
\* lines 177-195: iterations i.. of the loop over the classes; nuclei__ is
\* assigned only when the class has items and survives from one class to
\* the next
NucleiLoop(labels, i, nuclei, nuclei__) ==
    IF i > Len(labels) THEN [err |-> "none", nuclei |-> nuclei]
    ELSE LET rows  == Array([j \in DOMAIN labels[i] |-> NucleiRow(labels[i][j])])
             stack == VStackInto(rows, nuclei__)
         IN  IF ~stack.bound
             THEN [err |-> "UnboundLocalError", nuclei |-> nuclei]
             ELSE NucleiLoop(labels, i + 1, Append(nuclei, stack.rows), stack)

\* line 202: column t of every class, as one-column matrices
NucleiTypeData(nuclei, t) ==
    Array([c \in DOMAIN nuclei |->
              [r \in DOMAIN nuclei[c] |-> <<nuclei[c][r][t]>>]])

\* lines 198-204: the histograms of histogram mode; err is the first error.
\* The result of line 199 is read nowhere in histogram mode and the
\* normalisation raises nothing, so of that call only the outcome of the
\* histogram stage matters.
NucleiHistograms(nuclei) ==
    LET whole  == HistogramsOf(nuclei, NucleiStep)
        T      == Len(nuclei[1][1])
        perTyp == Array([t \in 1..T |->
                     HistogramAnalysis(NucleiTypeData(nuclei, t), NucleiStep)])
    IN  IF whole.err # "none" THEN [err |-> whole.err, all |-> <<>>]
        ELSE IF \E t \in 1..T : perTyp[t].err # "none"
        THEN [err |-> "ValueError", all |-> <<>>]
        ELSE [err |-> "none", all |-> [t \in 1..T |-> perTyp[t].count]]

\* line 207: sum([self.get_distance(x) for x in all_nuclei_histograms])
SumOfDistances(all, n, d) ==
    [i \in 1..n |-> [j \in 1..n |->
        SumSeq([t \in DOMAIN all |-> GetDistance(all[t], n, d).M[i][j]])]]

\* lines 217-231: per class, the share of its nuclei with a label in
\* {0, 1, 2, 5}, rounded to 4 digits, and the rounded mean over the
\* classes, in units of 1e-4; a class without nuclei divides by zero
PrecisionEpi(labels) ==
    LET all(i)  == Concat(labels[i])
        hits(i) == Cardinality({q \in DOMAIN all(i) : all(i)[q] \in {0, 1, 2, 5}})
        one(i)  == RoundHalfEven(10000 * hits(i), Len(all(i)))
    IN  IF \E i \in DOMAIN labels : Len(all(i)) = 0
        THEN [err |-> "ZeroDivisionError", value |-> 0]
        ELSE [err |-> "none",
              value |-> RoundHalfEven(SumSeq([i \in DOMAIN labels |-> one(i)]),
                                      Len(labels))]

\* lines 206-209: the representation get_distance is handed; in a mode
\* other than histogram mode it is the local nuclei_histogram, which only
\* histogram mode assigns
NucleiReads(mode) == IF mode = "hist" THEN "hist" ELSE "unbound"

\* a call of compute_nuclei_score() on the object (lines 175-232)
CallComputeNucleiScore ==
    /\ init_error = "none"
    /\ \E st \in {NucleiLoop(nuclei_labels, 1, <<>>, Unbound)} :
         LET Raise(e, rd) == [NoReturn EXCEPT !.op = "compute_nuclei_score",
                                              !.err = e, !.read = rd]
         IN  IF st.err # "none" THEN ret' = Raise(st.err, "none")
             ELSE IF NucleiReads(args_distance) = "unbound"
             THEN ret' = Raise("UnboundLocalError", "unbound")
             ELSE \E h \in {NucleiHistograms(st.nuclei)} :
                    IF h.err # "none" THEN ret' = Raise(h.err, "none")
                    ELSE \E M \in {SumOfDistances(h.all, n_tumors, dist)},
                            risk \in {GetRisk(n_tumors, args_risk)},
                            p \in {PrecisionEpi(nuclei_labels)} :
                           ret' = IF p.err # "none" THEN Raise(p.err, "hist")
                                  ELSE [op |-> "compute_nuclei_score",
                                        read |-> "hist", err |-> "none",
                                        risk |-> risk, distance |-> M,
                                        score |-> HalvedAndRounded(
                                                      SumOfProducts(M, risk)),
                                        precision_epi |-> p.value]
    /\ UNCHANGED <<tumor_labels, node_concept, args_risk, args_distance,
                   n_tumors, concept, nuclei_labels, init_error, dist,
                   histVars, explainVars, scriptVars>>

---------------------------------------------------------------------------
(* Direct calls of the two histogram functions *)

\* bin widths the calls are made with
HistSteps == {1, 2}
\* number of classes of a call
HistClassCounts == {1, 2}
\* rows of one class, one column: 1 to 3 rows with values in 0..MaxVal
Samples1D ==
    UNION {[1..k -> {<<v>> : v \in 0..MaxVal}] : k \in 1..3}
\* rows of one class, two columns: 1 or 2 rows out of four points
Points2D == {<<0, 0>>, <<1, 3>>, <<3, 1>>, <<2, 2>>}
Samples2D == UNION {[1..k -> Points2D] : k \in 1..2}

HistNoReturn == [fn |-> "none", err |-> "none", bins |-> <<>>, raw |-> <<>>,
                 count |-> <<>>]

\* the arguments of a call in which some class has rows and some class
\* has none
DegenerateArguments ==
    /\ \E c \in HistClassCounts :
         /\ hist_input \in [1..c -> Samples1D \cup {<<>>}]
         /\ \E k \in 1..c : hist_input[k] = <<>>
         /\ \E k \in 1..c : hist_input[k] # <<>>
    /\ hist_step \in HistSteps
    /\ hist_ret = HistNoReturn

\* the arguments of a call: every class has rows, all of one width
HistArguments ==
    /\ \E c \in HistClassCounts :
         \/ hist_input \in [1..c -> Samples1D]
         \/ hist_input \in [1..c -> Samples2D]
    /\ hist_step \in HistSteps
    /\ hist_ret = HistNoReturn

HistIdle ==
    /\ hist_input = <<>>
    /\ hist_step = 1
    /\ hist_ret = HistNoReturn

\* histogram_analysis(hist_input, hist_step)
CallHistogramAnalysis ==
    /\ hist_input # <<>>
    /\ hist_ret.fn = "none"
    /\ \E r \in {HistogramAnalysis(hist_input, hist_step)} :
           hist_ret' = [fn |-> "histogram_analysis", err |-> r.err,
                        bins |-> r.bins, raw |-> r.raw, count |-> r.count]
    /\ UNCHANGED <<hist_input, hist_step, metricVars, explainVars, scriptVars>>

\* histogram_analysis_per_concept(hist_input, hist_step)
CallHistogramAnalysisPerConcept ==
    /\ hist_input # <<>>
    /\ hist_ret.fn = "none"
    /\ \E r \in {HistogramAnalysisPerConcept(hist_input, hist_step)} :
           hist_ret' = [fn |-> "histogram_analysis_per_concept", err |-> r.err,
                        bins |-> r.bins, raw |-> r.raw, count |-> r.count]
    /\ UNCHANGED <<hist_input, hist_step, metricVars, explainVars, scriptVars>>

---------------------------------------------------------------------------
(* explain_cell_graphs *)

Optional == {"None", "given"}

\* lines 36-37: the first statement of the function body
FirstStatementIsCheck == "check"
FirstStatement == "importance"

\* lines 38-45: where control goes after the test of the three optional
\* parameters: to generate_interactives, to the raise, or straight to the
\* return statement
VisualizationBranchBothNeeded(features, names, out) ==
    IF out # "None" /\ features # "None" /\ names # "None" THEN "interactives"
    ELSE IF features # "None" /\ names # "None" THEN "raise"
    ELSE "separability"
VisualizationBranch(features, names, out) ==
    IF out # "None" /\ features # "None" /\ names # "None" THEN "interactives"
    ELSE IF features # "None" \/ names # "None" THEN "raise"
    ELSE "separability"

\* a call of explain_cell_graphs with its arguments bound
ExplainCalled ==
    /\ pc = FirstStatement
    /\ feature_names \in Optional
    /\ cell_graph_names \in Optional
    /\ out_directory \in Optional
    /\ n_graphs \in 1..MaxGraphs
    /\ calls = <<>>
    /\ raised = "none"

ExplainIdle ==
    /\ pc = "idle"
    /\ feature_names = "None"
    /\ cell_graph_names = "None"
    /\ out_directory = "None"
    /\ n_graphs = 0
    /\ calls = <<>>
    /\ raised = "none"

\* lines 36-37: calculate_importance over all the graphs; it returns, or
\* raises and the exception leaves explain_cell_graphs
CalculateImportance ==
    /\ pc = "importance"
    /\ calls' = Append(calls, [fn |-> "calculate_importance",
                               graphs |-> n_graphs,
                               out_directory |-> "None"])
    /\ \/ pc' = "check" /\ raised' = raised
       \/ pc' = "raised" /\ raised' = "calculate_importance"
    /\ UNCHANGED <<feature_names, cell_graph_names, out_directory, n_graphs,
                   metricVars, histVars, scriptVars>>

\* lines 38-44: the test of the visualization parameters
CheckVisualization ==
    /\ pc = "check"
    /\ calls' = Append(calls, [fn |-> "check_visualization",
                               graphs |-> 0,
                               out_directory |-> "None"])
    /\ LET to == VisualizationBranch(feature_names, cell_graph_names,
                                     out_directory)
       IN  IF to = "raise"
           THEN pc' = "raised" /\ raised' = "ValueError"
           ELSE pc' = to /\ raised' = raised
    /\ UNCHANGED <<feature_names, cell_graph_names, out_directory, n_graphs,
                   metricVars, histVars, scriptVars>>

\* lines 40-41: generate_interactives
GenerateInteractives ==
    /\ pc = "interactives"
    /\ calls' = Append(calls, [fn |-> "generate_interactives",
                               graphs |-> n_graphs,
                               out_directory |-> out_directory])
    /\ \/ pc' = "separability" /\ raised' = raised
       \/ pc' = "raised" /\ raised' = "generate_interactives"
    /\ UNCHANGED <<feature_names, cell_graph_names, out_directory, n_graphs,
                   metricVars, histVars, scriptVars>>

\* lines 45-48: return calculate_separability(..., out_directory=out_directory)
CalculateSeparability ==
    /\ pc = "separability"
    /\ calls' = Append(calls, [fn |-> "calculate_separability",
                               graphs |-> n_graphs,
                               out_directory |-> out_directory])
    /\ \/ pc' = "returned" /\ raised' = raised
       \/ pc' = "raised" /\ raised' = "calculate_separability"
    /\ UNCHANGED <<feature_names, cell_graph_names, out_directory, n_graphs,
                   metricVars, histVars, scriptVars>>

---------------------------------------------------------------------------
(* The script d2_make_interactives.py *)

\* specimens the loaded graphs come from
Specimens == {"S1", "S2", "S3"}

\* a loaded graph: GraphData with its name, its specimen and its DGLGraph.
\* The k-th loaded graph has name k (names are unique ids) and the
\* DGLGraph object k.
GraphDatum(k, specimen) == [name |-> k, specimen |-> specimen, graph |-> k]

\* lines 48-51: the dictionary key of graph datum g
GroupKeyAlwaysSpecimen(g, merge) == <<"specimen", g.specimen>>
GroupKey(g, merge) ==
    IF merge THEN <<"specimen", g.specimen>> ELSE <<"name", g.name>>

\* graph_groups[key].append(graph) on a DefaultDict(list)
AppendToGroup(groups, key, graph) ==
    [k \in DOMAIN groups \cup {key} |->
        IF k = key
        THEN Append(IF key \in DOMAIN groups THEN groups[key] ELSE <<>>, graph)
        ELSE groups[k]]

\* the empty dictionary
EmptyDict == [k \in {} |-> <<>>]

\* lines 44-46: the arguments parsed, the graphs loaded
GraphsLoaded ==
    \E len \in 0..MaxGraphs, merge \in BOOLEAN :
      \E specimen \in [1..len -> Specimens] :
        /\ cell_graphs_data = [k \in 1..len |-> GraphDatum(k, specimen[k])]
        /\ merge_rois = merge
        /\ graph_groups = EmptyDict
        /\ group_pc = 1
        /\ handed_groups = EmptyDict

---------------------------------------------------------------------------
(* run (cggnn/run.py) *)

\* cggnn.util.constants.TRAIN_VALIDATION_TEST
TRAIN_VALIDATION_TEST == <<"train", "validation", "test">>

\* values of GraphData.train_validation_test: a split, or None
SplitValues == {"train", "validation", "test", "None"}
\* values of GraphData.label
GraphLabels == {0, 1}

\* the k-th generated graph: name g_k, DGLGraph object k
GeneratedGraph(k, split, label) ==
    [name |-> <<"g", k>>, train_validation_test |-> split, label |-> label,
     graph |-> k]

\* Python's seq[j] for a negative or non-negative j, which raises
\* IndexError when j is not in range
InRange(seq, j) == -Len(seq) <= j /\ j < Len(seq)
Subscript(seq, j) == IF j >= 0 THEN seq[j + 1] ELSE seq[Len(seq) + 1 + j]

\* line 40: (([], []), ([], []), ([], []))
EmptySets == [k \in 1..3 |-> [graphs |-> <<>>, labels |-> <<>>]]

\* lines 42-46: the set a graph datum goes to
ISet(d) ==
    IF d.train_validation_test = "validation" THEN 1
    ELSE IF d.train_validation_test = "test" THEN 2 ELSE 0

\* line 53: the first value of i
FirstIndex == -1

\* line 56: the selection gives up
GivesUpLate(j) == j < -4
GivesUp(j) == j < -3

\* lines 66-67: [d.name for d in graphs
\*               if d.train_validation_test == TRAIN_VALIDATION_TEST[i]]
NamesOfSplit(gs, j) ==
    LET split == Subscript(TRAIN_VALIDATION_TEST, j)
        F[k \in 0..Len(gs)] ==
            IF k = 0 THEN <<>>
            ELSE IF gs[k].train_validation_test = split
                 THEN Append(F[k - 1], gs[k].name) ELSE F[k - 1]
    IN  F[Len(gs)]

\* evaluation_set before line 58 assigns it
NoEvaluationSet == [assigned |-> FALSE, graphs |-> <<>>, labels |-> <<>>]

NoExplainCall == [called |-> FALSE, graphs |-> <<>>, cell_graph_names |-> <<>>]

\* line 35: generate_graphs has returned
GraphsGenerated ==
    /\ \E len \in 0..MaxGraphs :
         \E split \in [1..len -> SplitValues], label \in [1..len -> GraphLabels] :
           graphs = [k \in 1..len |-> GeneratedGraph(k, split[k], label[k])]
    /\ train_validation_test = EmptySets
    /\ run_pc = "partition"
    /\ next_graph = 1
    /\ eval_i = 0
    /\ evaluation_set = NoEvaluationSet
    /\ explain_call = NoExplainCall
    /\ run_raised = "none"

\* run is not running
RunIdle ==
    /\ graphs = <<>>
    /\ train_validation_test = EmptySets
    /\ run_pc = "idle"
    /\ next_graph = 0
    /\ eval_i = 0
    /\ evaluation_set = NoEvaluationSet
    /\ explain_call = NoExplainCall
    /\ run_raised = "none"

\* lines 41-48: one iteration of the partition loop
PartitionOneGraph ==
    /\ run_pc = "partition"
    /\ next_graph <= Len(graphs)
    /\ LET d == graphs[next_graph]
           k == ISet(d) + 1
       IN  train_validation_test' =
               [train_validation_test EXCEPT
                   ![k].graphs = Append(@, d.graph),
                   ![k].labels = Append(@, d.label)]
    /\ next_graph' = next_graph + 1
    /\ UNCHANGED <<graphs, run_pc, eval_i, evaluation_set, explain_call, run_raised,
                   metricVars, histVars, explainVars, groupVars>>

\* lines 49-53: the partition loop is over, train returns, i = -1
Train ==
    /\ run_pc = "partition"
    /\ next_graph = Len(graphs) + 1
    /\ run_pc' = "while"
    /\ eval_i' = FirstIndex
    /\ UNCHANGED <<graphs, train_validation_test, next_graph, evaluation_set,
                   explain_call, run_raised,
                   metricVars, histVars, explainVars, groupVars>>

\* lines 54-58: the test of the while loop and, when it holds, one
\* iteration of its body; when it does not, evaluation_set is assigned
SelectStep ==
    /\ run_pc = "while"
    /\ LET set == Subscript(train_validation_test, eval_i)
       IN  IF ~InRange(train_validation_test, eval_i)
           THEN /\ run_pc' = "raised"
                /\ run_raised' = "IndexError"
                /\ UNCHANGED <<eval_i, evaluation_set>>
           ELSE IF Len(set.graphs) = 0
           THEN /\ eval_i' = eval_i - 1
                /\ IF GivesUp(eval_i - 1)
                   THEN /\ run_pc' = "raised"
                        /\ run_raised' = "RuntimeError"
                   ELSE UNCHANGED <<run_pc, run_raised>>
                /\ UNCHANGED evaluation_set
           ELSE /\ evaluation_set' = [assigned |-> TRUE, graphs |-> set.graphs,
                                      labels |-> set.labels]
                /\ run_pc' = "explain"
                /\ UNCHANGED <<eval_i, run_raised>>
    /\ UNCHANGED <<graphs, train_validation_test, next_graph, explain_call,
                   metricVars, histVars, explainVars, groupVars>>

\* lines 59-69: the call of explain_cell_graphs
CallExplainCellGraphs ==
    /\ run_pc = "explain"
    /\ explain_call' = [called |-> TRUE, graphs |-> graphs,
                        cell_graph_names |-> NamesOfSplit(graphs, eval_i)]
    /\ run_pc' = "export"
    /\ UNCHANGED <<graphs, train_validation_test, next_graph, eval_i,
                   evaluation_set, run_raised,
                   metricVars, histVars, explainVars, groupVars>>

\* lines 71-75: the tables are written, tmp/ is removed, run returns
ExportTables ==
    /\ run_pc = "export"
    /\ run_pc' = "done"
    /\ UNCHANGED <<graphs, train_validation_test, next_graph, eval_i,
                   evaluation_set, explain_call, run_raised,
                   metricVars, histVars, explainVars, groupVars>>

\* the script is not running
GroupIdle ==
    /\ cell_graphs_data = <<>>
    /\ merge_rois = FALSE
    /\ graph_groups = EmptyDict
    /\ group_pc = 0
    /\ handed_groups = EmptyDict

ScriptsIdle == GroupIdle /\ RunIdle

\* lines 47-51: one iteration of the loop over cell_graphs_data
GroupOneGraph ==
    /\ group_pc \in 1..Len(cell_graphs_data)
    /\ LET g == cell_graphs_data[group_pc]
       IN  graph_groups' =
               AppendToGroup(graph_groups, GroupKey(g, merge_rois), g.graph)
    /\ group_pc' = group_pc + 1
    /\ UNCHANGED <<cell_graphs_data, merge_rois, handed_groups,
                   metricVars, histVars, explainVars, runVars>>

\* lines 52-57: the loop is over, generate_interactives gets graph_groups
HandGroupsToGenerateInteractives ==
    /\ group_pc = Len(cell_graphs_data) + 1
    /\ handed_groups' = graph_groups
    /\ group_pc' = -1
    /\ UNCHANGED <<cell_graphs_data, merge_rois, graph_groups,
                   metricVars, histVars, explainVars, runVars>>

---------------------------------------------------------------------------
(* Specifications: a Metric object with calls on it; one direct call of a  *)
(* histogram function; one execution of explain_cell_graphs; one execution *)
(* of each script; and all of them                                         *)

MetricInit == MetricConstructed /\ HistIdle /\ ExplainIdle /\ ScriptsIdle
MetricNext ==
    \/ CallGetRisk
    \/ CallGetDistance
    \/ CallComputeConceptScore
SpecMetric == MetricInit /\ [][MetricNext]_vars

HistInit == MetricIdle /\ HistArguments /\ ExplainIdle /\ ScriptsIdle
HistNext ==
    \/ CallHistogramAnalysis
    \/ CallHistogramAnalysisPerConcept
SpecHist == HistInit /\ [][HistNext]_vars

ExplainInit == MetricIdle /\ HistIdle /\ ExplainCalled /\ ScriptsIdle
ExplainNext ==
    \/ CalculateImportance
    \/ CheckVisualization
    \/ GenerateInteractives
    \/ CalculateSeparability
SpecExplain == ExplainInit /\ [][ExplainNext]_vars

ScoreNext ==
    \/ CallComputeConceptScore
    \/ CallComputeNucleiScore
SpecScore == MetricInit /\ [][ScoreNext]_vars

DegenerateInit ==
    MetricIdle /\ DegenerateArguments /\ ExplainIdle /\ ScriptsIdle
SpecDegenerate == DegenerateInit /\ [][HistNext]_vars

GroupInit ==
    MetricIdle /\ HistIdle /\ ExplainIdle /\ GraphsLoaded /\ RunIdle
GroupNext ==
    \/ GroupOneGraph
    \/ HandGroupsToGenerateInteractives
SpecGroup == GroupInit /\ [][GroupNext]_vars

RunInit ==
    MetricIdle /\ HistIdle /\ ExplainIdle /\ GroupIdle /\ GraphsGenerated
RunNext ==
    \/ PartitionOneGraph
    \/ Train
    \/ SelectStep
    \/ CallExplainCellGraphs
    \/ ExportTables
\* run is sequential code: it goes on as long as it has a next statement
SpecRun == RunInit /\ [][RunNext]_vars /\ WF_vars(RunNext)

Init == MetricInit \/ HistInit \/ DegenerateInit \/ ExplainInit \/ GroupInit
            \/ RunInit
Next == MetricNext \/ ScoreNext \/ HistNext \/ ExplainNext \/ GroupNext
            \/ RunNext
Spec == Init /\ [][Next]_vars

---------------------------------------------------------------------------
(* Properties of get_risk, get_distance and compute_concept_score *)

ClassPositions == 1..n_tumors

RiskReturned == ret.op = "get_risk"
DistanceReturned ==
    /\ ret.op \in {"get_distance", "compute_concept_score"}
    /\ ret.err = "none"
    /\ ret.distance # <<>>
ScoreReturned == ret.op = "compute_concept_score" /\ ret.err = "none"

\* C1 as stated: in uniform mode get_risk returns 1 off the diagonal and 0
\* on it, and the diagonal is 0 in ordinal mode as well.
C1_RiskDiagonalZeroInBothModes ==
    RiskReturned =>
        /\ \A i \in ClassPositions : ret.risk[i][i] = 0
        /\ ~EvalRisk(args_risk) =>
               \A i, j \in ClassPositions : i # j => ret.risk[i][j] = 1

\* C1 amended: in uniform mode get_risk returns the all-ones matrix, the
\* diagonal included; the diagonal is 0 in ordinal mode only.
C1_UniformRiskAllOnes ==
    RiskReturned =>
        /\ Len(ret.risk) = n_tumors
        /\ ~EvalRisk(args_risk) =>
               \A i, j \in ClassPositions : ret.risk[i][j] = 1
        /\ EvalRisk(args_risk) =>
               \A i \in ClassPositions : ret.risk[i][i] = 0

C1_Witness ==
    RiskReturned /\ args_risk = "False" /\ n_tumors = 3 /\ ret.risk[2][2] = 1

\* C2: in ordinal mode get_risk returns risk[i][j] = |i - j| for every pair
\* of classes, so the matrix is symmetric and has no negative entry.
C2_OrdinalRiskIsIndexDistance ==
    (RiskReturned /\ EvalRisk(args_risk)) =>
        /\ Len(ret.risk) = n_tumors
        /\ \A i, j \in ClassPositions :
             /\ Len(ret.risk[i]) = n_tumors
             /\ ret.risk[i][j] = (IF i > j THEN i - j ELSE j - i)
             /\ ret.risk[i][j] = ret.risk[j][i]
             /\ ret.risk[i][j] >= 0

C2_Witness ==
    RiskReturned /\ args_risk = "True" /\ n_tumors = 3 /\ ret.risk[3][1] = 2

\* C3: the matrix get_distance returns is symmetric, has a zero diagonal
\* and no negative entry, whatever non-negative values the distance
\* function gives; above the diagonal it holds the rounded distances.
C3_DistanceSymmetricZeroDiagonal ==
    DistanceReturned =>
        /\ Len(ret.distance) = n_tumors
        /\ \A i, j \in ClassPositions :
             /\ ret.distance[i][j] = ret.distance[j][i]
             /\ ret.distance[i][j] >= 0
             /\ i = j => ret.distance[i][j] = 0
             /\ i < j => ret.distance[i][j] = Round4(dist[<<i, j>>])

C3_Witness ==
    /\ ret.op = "get_distance"
    /\ n_tumors = 3
    /\ ret.distance[2][1] > 0
    /\ ret.distance[3][2] # ret.distance[2][1]

\* the sum over the pairs i < j of distance * risk
UpperTriangleSum(distance, risk) ==
    LET pairs == {p \in (DOMAIN distance) \X (DOMAIN distance) : p[1] < p[2]}
        F[S \in SUBSET pairs] ==
            IF S = {} THEN 0
            ELSE LET p == CHOOSE q \in S : TRUE
                 IN  distance[p[1]][p[2]] * risk[p[1]][p[2]] + F[S \ {p}]
    IN  F[pairs]

\* C4: the score of compute_concept_score equals the sum over i < j of
\* distance[i][j] * risk[i][j], no pair counted twice, with the ordinal and
\* with the all-ones risk matrix; for 3 classes with ordinal risk it is
\* d01*1 + d02*2 + d12*1.
C4_ScoreIsUpperTriangleSum ==
    ScoreReturned =>
        /\ ret.score = UpperTriangleSum(ret.distance, ret.risk)
        /\ (n_tumors = 3 /\ EvalRisk(args_risk)) =>
               ret.score = ret.distance[1][2] * 1 + ret.distance[1][3] * 2
                           + ret.distance[2][3] * 1
        /\ (n_tumors = 3 /\ ~EvalRisk(args_risk)) =>
               ret.score = ret.distance[1][2] + ret.distance[1][3]
                           + ret.distance[2][3]

C4_Witness ==
    /\ ScoreReturned
    /\ n_tumors = 3
    /\ args_risk = "True"
    /\ ret.distance[1][2] > 0
    /\ ret.distance[1][3] > 0
    /\ ret.score = ret.distance[1][2] + 2 * ret.distance[1][3] + ret.distance[2][3]

---------------------------------------------------------------------------
(* Properties of merge_concepts_per_tumor_type, as run by Metric.__init__ *)

\* the object was constructed and self.concept still holds the pooled rows
Pooled == init_error = "none" /\ concept.repr = "rows"

PresentLabels == Range(tumor_labels)

\* the rows of every graph labelled c, graph after graph
RowsOfClass(c) ==
    LET F[g \in 0..Len(tumor_labels)] ==
            IF g = 0 THEN <<>>
            ELSE IF tumor_labels[g] = c THEN F[g - 1] \o node_concept[g]
            ELSE F[g - 1]
    IN  F[Len(tumor_labels)]

\* the k-th smallest label that some graph has
PresentLabel(k) ==
    CHOOSE c \in PresentLabels :
        Cardinality({x \in PresentLabels : x < c}) = k - 1

\* C6: a class index without graphs is dropped from the output, never
\* filled with another class's rows, and every class with a graph gets a
\* non-empty entry holding only its own rows, also when the labels present
\* are not 0..C-1.
C6_ClassWithoutGraphsDropped ==
    Pooled =>
        /\ Len(concept.data) = Cardinality(PresentLabels)
        /\ \A k \in DOMAIN concept.data :
             /\ concept.data[k] # <<>>
             /\ concept.data[k] = RowsOfClass(PresentLabel(k))

\* C7: for each class, the pooled entry is the row-stack of the rows of
\* every graph of that class, in graph order and with the order inside a
\* graph kept: it has as many rows as those graphs together and no row of a
\* graph of another class.
C7_PooledIsRowStackOfOwnGraphs ==
    Pooled =>
        \A i \in DOMAIN concept.data :
            LET own == {g \in DOMAIN tumor_labels : tumor_labels[g] = i - 1}
            IN  /\ concept.data[i] = RowsOfClass(i - 1)
                /\ Len(concept.data[i])
                     = SumSeq([g \in DOMAIN tumor_labels |->
                                 IF g \in own THEN Len(node_concept[g]) ELSE 0])
                /\ \A r \in DOMAIN concept.data[i] :
                     \E g \in own : concept.data[i][r] \in Range(node_concept[g])

---------------------------------------------------------------------------
(* Properties of histogram_analysis and histogram_analysis_per_concept *)

HistReturned(fn) == hist_ret.fn = fn
HistDims == 1..Len(hist_input[1][1])

\* the least and greatest value of column d over the rows of the classes K
ValuesOver(K, d) ==
    UNION {{hist_input[c][r][d] : r \in DOMAIN hist_input[c]} : c \in K}
LeastOver(K, d) ==
    CHOOSE m \in ValuesOver(K, d) : \A v \in ValuesOver(K, d) : m <= v
GreatestOver(K, d) ==
    CHOOSE m \in ValuesOver(K, d) : \A v \in ValuesOver(K, d) : m >= v

\* the edges lo + j*step for j = 0..ceil((hi - lo)/step)
EdgesSpanning(lo, hi) ==
    LET n == CHOOSE c \in 0..(hi - lo) :
                 /\ c * hist_step >= hi - lo
                 /\ c > 0 => (c - 1) * hist_step < hi - lo
    IN  [k \in 1..(n + 1) |-> lo + (k - 1) * hist_step]

\* the edge sequences of the classes K are those of their joint range
EdgesFromRangeOf(K, bins) ==
    \A d \in HistDims :
        /\ bins[d] = EdgesSpanning(LeastOver(K, d), GreatestOver(K, d))
        /\ bins[d][1] = LeastOver(K, d)
        /\ bins[d][Len(bins[d])] >= GreatestOver(K, d)
        /\ bins[d][Len(bins[d])] < GreatestOver(K, d) + hist_step

\* C8 as stated: every histogram computation that returns, by
\* histogram_analysis and by histogram_analysis_per_concept alike, has used
\* in each dimension one edge sequence shared by all classes and built from
\* the minimum and maximum over all classes' rows.
C8_EveryHistogramUsesGlobalEdges ==
    hist_ret.err = "none" =>
        /\ HistReturned("histogram_analysis") =>
               EdgesFromRangeOf(DOMAIN hist_input, hist_ret.bins)
        /\ HistReturned("histogram_analysis_per_concept") =>
               \A k \in DOMAIN hist_ret.bins :
                   EdgesFromRangeOf(DOMAIN hist_input, hist_ret.bins[k])

\* C8 amended: histogram_analysis uses in each dimension one edge sequence
\* for all classes, min + j*step for j = 0..ceil((max - min)/step) with the
\* minimum and maximum over all classes' rows, whose last edge is not below
\* the maximum; histogram_analysis_per_concept builds the edges of each
\* item from that item's own minimum and maximum.
C8_GlobalEdgesInHistogramAnalysisOnly ==
    /\ HistReturned("histogram_analysis") =>
           /\ EdgesFromRangeOf(DOMAIN hist_input, hist_ret.bins)
           /\ \A c \in DOMAIN hist_ret.raw :
                  DOMAIN hist_ret.raw[c] = Cells(hist_ret.bins)
    /\ HistReturned("histogram_analysis_per_concept") =>
           \A k \in DOMAIN hist_ret.bins :
               EdgesFromRangeOf({k}, hist_ret.bins[k])

C8_Witness ==
    /\ HistReturned("histogram_analysis")
    /\ hist_ret.err = "none"
    /\ Len(hist_input) = 2
    /\ LeastOver({1}, 1) # LeastOver({2}, 1)
    /\ GreatestOver({1}, 1) # GreatestOver({2}, 1)
    /\ hist_ret.bins[1][Len(hist_ret.bins[1])] > GreatestOver({1, 2}, 1)

Zero == <<0, 1>>
One  == <<1, 1>>

\* the densities before normalisation are not all equal
NonDegenerate == Cardinality(AllValues(hist_ret.raw)) > 1

\* C9: after normalisation of histograms whose densities are not all
\* equal, every value of every class's array lies in [0, 1], and 0 and 1
\* are each attained by some class.
C9_NormalizedIntoUnitInterval ==
    (hist_ret.fn # "none" /\ hist_ret.err = "none" /\ NonDegenerate) =>
        /\ \A v \in AllValues(hist_ret.count) :
               ~FracLess(v, Zero) /\ ~FracLess(One, v) /\ v[2] > 0
        /\ Zero \in AllValues(hist_ret.count)
        /\ One \in AllValues(hist_ret.count)

C9_Witness ==
    /\ HistReturned("histogram_analysis")
    /\ hist_ret.err = "none"
    /\ Len(hist_input) = 2
    /\ ~(Zero \in AllValues(hist_ret.raw))
    /\ NonDegenerate
    /\ \E v \in AllValues(hist_ret.count) : FracLess(Zero, v) /\ FracLess(v, One)

---------------------------------------------------------------------------
(* Properties of explain_cell_graphs *)

Supplied(x) == x # "None"
AllSupplied ==
    Supplied(feature_names) /\ Supplied(cell_graph_names) /\ Supplied(out_directory)
SomeSupplied ==
    Supplied(feature_names) \/ Supplied(cell_graph_names) \/ Supplied(out_directory)

Called(fn) == \E k \in DOMAIN calls : calls[k].fn = fn
CheckDone == Called("check_visualization")

\* C5 as stated: with at least one but not all three of feature_names,
\* cell_graph_names and out_directory supplied, the call fails with a
\* configuration error and calculate_separability is never invoked.
C5_AnyPartialSupplyFails ==
    (SomeSupplied /\ ~AllSupplied) =>
        /\ ~Called("calculate_separability")
        /\ CheckDone => (pc = "raised" /\ raised = "ValueError")

\* C5 amended: the call fails with ValueError, calculate_separability never
\* invoked, whenever feature_names or cell_graph_names is supplied but not
\* all three parameters are; with out_directory alone supplied no
\* ValueError is raised and the call goes on to calculate_separability,
\* which is handed out_directory.
C5_NamesWithoutAllThreeFail ==
    /\ ((Supplied(feature_names) \/ Supplied(cell_graph_names)) /\ ~AllSupplied) =>
          /\ ~Called("calculate_separability")
          /\ ~Called("generate_interactives")
          /\ CheckDone => (pc = "raised" /\ raised = "ValueError")
    /\ (Supplied(out_directory) /\ ~Supplied(feature_names)
            /\ ~Supplied(cell_graph_names)) =>
          /\ raised # "ValueError"
          /\ CheckDone =>
               \/ pc = "separability"
               \/ /\ Called("calculate_separability")
                  /\ calls[Len(calls)].out_directory = out_directory

C5_Witness ==
    /\ Supplied(feature_names)
    /\ Supplied(out_directory)
    /\ ~Supplied(cell_graph_names)
    /\ pc = "raised"
    /\ raised = "ValueError"

\* C10: calculate_importance over all the supplied graphs is the first
\* thing explain_cell_graphs does and has returned before the parameter
\* check, generate_interactives and calculate_separability;
\* calculate_separability is invoked at most once.
C10_ImportanceRunsFirst ==
    /\ calls # <<>> =>
          /\ calls[1].fn = "calculate_importance"
          /\ calls[1].graphs = n_graphs
    /\ \A k \in DOMAIN calls : k > 1 =>
          /\ calls[k].fn # "calculate_importance"
          /\ raised # "calculate_importance"
    /\ Cardinality({k \in DOMAIN calls : calls[k].fn = "calculate_separability"}) <= 1
    /\ pc \in {"check", "interactives", "separability", "returned"} =>
          Called("calculate_importance")

C10_Witness ==
    /\ pc = "returned"
    /\ Len(calls) = 4
    /\ calls[1].fn = "calculate_importance"
    /\ calls[3].fn = "generate_interactives"
    /\ calls[4].fn = "calculate_separability"

---------------------------------------------------------------------------
(* C11: visualization groups *)

\* number of loaded graphs the loop has gone through
Grouped == IF group_pc = -1 THEN Len(cell_graphs_data)
           ELSE IF group_pc = 0 THEN 0 ELSE group_pc - 1

\* the DGLGraphs of the first n loaded graphs whose datum satisfies Same,
\* in load order
GraphsInLoadOrder(n, Same(_)) ==
    LET F[k \in 0..n] ==
            IF k = 0 THEN <<>>
            ELSE IF Same(cell_graphs_data[k])
                 THEN Append(F[k - 1], cell_graphs_data[k].graph)
                 ELSE F[k - 1]
    IN  F[n]

\* how many groups hold graph x, counting repetitions inside a group
Placements(groups, x) ==
    Cardinality({<<key, pos>> \in
                    UNION {{<<k, q>> : q \in DOMAIN groups[k]} : k \in DOMAIN groups} :
                    groups[key][pos] = x})

\* the groups as the claim describes them, for the first n loaded graphs
GroupsBySpecimen(n) ==
    [key \in {<<"specimen", cell_graphs_data[k].specimen>> : k \in 1..n} |->
        LET SameSpecimen(g) == g.specimen = key[2]
        IN  GraphsInLoadOrder(n, SameSpecimen)]
GroupsByName(n) ==
    [key \in {<<"name", cell_graphs_data[k].name>> : k \in 1..n} |->
        <<CHOOSE x \in {cell_graphs_data[k].graph : k \in 1..n} :
              \E k \in 1..n : /\ cell_graphs_data[k].name = key[2]
                               /\ cell_graphs_data[k].graph = x>>]

\* C11: every loaded graph the loop has gone through is in exactly one
\* group; with ROI merge the groups are the specimens, each holding its
\* graphs in load order; without it every graph is a group of its own under
\* its name; the grouped graphs are as many as the loaded ones; and
\* generate_interactives is handed these groups of all loaded graphs.
C11_EveryGraphInExactlyOneGroup ==
    /\ graph_groups = IF merge_rois THEN GroupsBySpecimen(Grouped)
                                    ELSE GroupsByName(Grouped)
    /\ \A k \in 1..Grouped :
           Placements(graph_groups, cell_graphs_data[k].graph) = 1
    /\ SumSeq([k \in 1..Grouped |->
                  Placements(graph_groups, cell_graphs_data[k].graph)]) = Grouped
    /\ \A k \in (Grouped + 1)..Len(cell_graphs_data) :
           Placements(graph_groups, cell_graphs_data[k].graph) = 0
    /\ group_pc = -1 =>
           /\ handed_groups = graph_groups
           /\ Grouped = Len(cell_graphs_data)

\* three graphs loaded, the first and the third of specimen S1, merged into
\* the group <<1, 3>> and handed over next to the group of the second
C11_Witness ==
    /\ group_pc = -1
    /\ merge_rois
    /\ Len(cell_graphs_data) = 3
    /\ DOMAIN handed_groups = {<<"specimen", "S1">>, <<"specimen", "S2">>}
    /\ handed_groups[<<"specimen", "S1">>] = <<1, 3>>
    /\ handed_groups[<<"specimen", "S2">>] = <<2>>

---------------------------------------------------------------------------
(* C12: a class without rows at distance-computation time *)

\* some class of the input has a pooled matrix of zero rows
SomeClassWithoutRows == \E c \in DOMAIN hist_input : hist_input[c] = <<>>

\* C12: when the pooled matrix of some class has zero rows, the histogram
\* computation that prepares the distances fails with a
\* DegenerateDistributionError and returns no arrays.
C12_ZeroRowsRaiseDegenerateDistribution ==
    (hist_ret.fn # "none" /\ SomeClassWithoutRows) =>
        /\ hist_ret.err = "DegenerateDistributionError"
        /\ hist_ret.count = <<>>

---------------------------------------------------------------------------
(* C13: joint, single-shot normalisation *)

\* (v - gmin) / (gmax - gmin)
Rescaled(v, gmin, gmax) == FracDiv(FracSub(v, gmin), FracSub(gmax, gmin))

\* the arrays `raw`, each value rescaled once with the least and greatest
\* raw density over all arrays, or unchanged when these two are equal
JointlyNormalized(raw) ==
    LET gmin == FracMin(AllValues(raw))
        gmax == FracMax(AllValues(raw))
    IN  IF gmax = gmin THEN raw
        ELSE [c \in DOMAIN raw |-> [b \in DOMAIN raw[c] |->
                 Rescaled(raw[c][b], gmin, gmax)]]

\* the input with its classes in the opposite order
Reversed(seq) == [k \in DOMAIN seq |-> seq[Len(seq) + 1 - k]]

\* C13: the arrays returned by histogram_analysis and by
\* histogram_analysis_per_concept are the raw density arrays rescaled once
\* with the minimum and maximum raw density over all classes (unchanged
\* when the two are equal), and processing the classes in the opposite
\* order gives the same array for every class.
C13_JointSingleShotNormalization ==
    (hist_ret.fn # "none" /\ hist_ret.err = "none") =>
        /\ hist_ret.count = JointlyNormalized(hist_ret.raw)
        /\ HistReturned("histogram_analysis") =>
               HistogramAnalysis(Reversed(hist_input), hist_step).count
                   = Reversed(hist_ret.count)
        /\ HistReturned("histogram_analysis_per_concept") =>
               HistogramAnalysisPerConcept(Reversed(hist_input), hist_step).count
                   = Reversed(hist_ret.count)

---------------------------------------------------------------------------
(* C14: the representation a scoring call reads *)

ScoringCalled == ret.op \in {"compute_concept_score", "compute_nuclei_score"}

\* C14: in every distance mode a scoring call, compute_concept_score or
\* compute_nuclei_score, hands to the distance computation the
\* representation of the selected mode: the histogram arrays in histogram
\* mode, the raw pooled rows in any other mode.  It never reads a
\* representation that was not computed, so no call ends on such a read
\* without a result.
C14_ScoringReadsRepresentationOfMode ==
    ScoringCalled =>
        /\ ret.read # "unbound"
        /\ ret.err # "UnboundLocalError"
        /\ ret.err = "none" =>
               ret.read = (IF args_distance = "hist" THEN "hist" ELSE "rows")

---------------------------------------------------------------------------
(* C17: scoring leaves the pooled distributions alone *)

ConceptScoreReturned(r) == r.op = "compute_concept_score" /\ r.err = "none"

\* C17: no call on the Metric object changes the stored per-class pooled
\* concept data, and a call of compute_concept_score that follows one which
\* returned a score returns that same score, in histogram mode as in any
\* other mode.
C17_ScoringKeepsPooledConcept ==
    [][ /\ concept' = concept
        /\ (ConceptScoreReturned(ret) /\ ret'.op = "compute_concept_score") =>
               /\ ret'.err = "none"
               /\ ret'.score = ret.score ]_vars

---------------------------------------------------------------------------
(* C15: the selection of the evaluation set in run *)

TrainSet      == train_validation_test[1]
ValidationSet == train_validation_test[2]
TestSet       == train_validation_test[3]

AllSetsEmpty ==
    /\ TestSet.graphs = <<>>
    /\ ValidationSet.graphs = <<>>
    /\ TrainSet.graphs = <<>>

\* the last of train, validation, test that is not empty
LastNonEmptySet ==
    IF TestSet.graphs # <<>> THEN TestSet
    ELSE IF ValidationSet.graphs # <<>> THEN ValidationSet
    ELSE TrainSet

Selected == run_pc \in {"explain", "export", "done"}

SelectionIsLastNonEmptySet ==
    /\ run_raised # "IndexError"
    /\ run_pc = "while" => eval_i \in {-3, -2, -1}
    /\ Selected =>
           /\ ~AllSetsEmpty
           /\ evaluation_set.assigned
           /\ evaluation_set.graphs = LastNonEmptySet.graphs
           /\ evaluation_set.labels = LastNonEmptySet.labels
           /\ eval_i = (IF TestSet.graphs # <<>> THEN -1
                        ELSE IF ValidationSet.graphs # <<>> THEN -2 ELSE -3)
    /\ run_pc = "raised" => (run_raised = "RuntimeError" /\ AllSetsEmpty)
    /\ run_raised = "RuntimeError" => run_pc = "raised"

\* C15: the selection loop of run ends for every list of graphs; it selects
\* the test set if that is not empty, else the validation set if that is
\* not empty, else the training set if that is not empty; it raises
\* RuntimeError exactly when all three sets are empty; and it never indexes
\* outside the three sets.
C15_SelectionLoopTerminates ==
    /\ []SelectionIsLastNonEmptySet
    /\ (run_pc = "while") ~> (Selected \/ run_pc = "raised")

\* only the training set has graphs: the loop went down to it
C15_Witness ==
    /\ run_pc = "explain"
    /\ eval_i = -3
    /\ Len(graphs) = 3
    /\ evaluation_set.graphs = TrainSet.graphs
    /\ Len(TrainSet.graphs) = 3

---------------------------------------------------------------------------
(* C16: the graph names handed to explain_cell_graphs *)

\* the name of the generated graph whose DGLGraph is x
NameOfGraph(x) ==
    (CHOOSE d \in {graphs[k] : k \in DOMAIN graphs} : d.graph = x).name

\* C16: the cell_graph_names run hands to explain_cell_graphs are the names
\* of the graphs held in the selected evaluation set, in the same order
\* and of the same count, whatever the split values of the generated
\* graphs are.
C16_NamesAreThoseOfEvaluationSet ==
    explain_call.called =>
        /\ Len(explain_call.cell_graph_names) = Len(evaluation_set.graphs)
        /\ explain_call.cell_graph_names =
               [k \in DOMAIN evaluation_set.graphs |->
                   NameOfGraph(evaluation_set.graphs[k])]

====
